---- MODULE Spec2Model ----
(***************************************************************************)
(* Model of the two S-57 batch exporters of gdal_export:                   *)
(*   depth.cpp   -- depth values of a fixed set of layers                  *)
(*   nobjnm.cpp  -- one text field of a configurable list of layers        *)
(* Both programs are one main(): parse the command line, reset the output  *)
(* directory, walk the input tree and, per *.000 file, open it, build one  *)
(* SELECT per target layer found, join them with UNION ALL and hand the    *)
(* query to GDALVectorTranslate, appending after the first success.        *)
(* The calls into GDAL, SQLite and boost::filesystem are the environment:  *)
(* their results are drawn with \E at the step that makes the call.        *)
(***************************************************************************)
EXTENDS Integers, Sequences, FiniteSets, TLC

\* Number of directory entries the iterator yields at most in one run.
MaxFiles == 3

(***************************************************************************)
(* Values of a feature's field, as the SQLite dialect sees them.           *)
(***************************************************************************)
Null == [t |-> "null", n |-> 0, s |-> <<>>]
Real(v) == [t |-> "real", n |-> v, s |-> <<>>]
Text(chars) == [t |-> "text", n |-> 0, s |-> chars]

Digits == <<"0", "1", "2", "3", "4", "5", "6", "7", "8", "9">>

IsDigit(c) == \E d \in 1..Len(Digits) : Digits[d] = c

DigitVal(c) == (CHOOSE d \in 1..Len(Digits) : Digits[d] = c) - 1

RECURSIVE ParseLeading(_, _)
\* SQLite CAST(text AS REAL): the longest numeric prefix, 0 when there is none.
ParseLeading(chars, acc) ==
    IF chars = <<>> \/ ~IsDigit(Head(chars))
    THEN acc
    ELSE ParseLeading(Tail(chars), 10 * acc + DigitVal(Head(chars)))

\* CAST("f" AS REAL) of depth.cpp's projection.
CastReal(val) ==
    CASE val.t = "null" -> Null
      [] val.t = "real" -> val
      [] OTHER -> Real(ParseLeading(val.s, 0))

\* The WHERE clause both programs write: "f" IS NOT NULL AND "f" != ''.
PassesFilter(val) == val.t # "null" /\ val # Text(<<>>)

(***************************************************************************)
(* Configuration built by main() before the loop.                          *)
(***************************************************************************)
\* depth.cpp: std::map, iterated in key order.
depth_map ==
    [l \in {"SOUNDG", "DEPARE", "DRGARE", "DEPCNT", "WRECKS", "OBSTRN", "UWTROC"} |->
        CASE l = "SOUNDG" -> "DEPTH"
          [] l \in {"DEPARE", "DRGARE"} -> "DRVAL1"
          [] l = "DEPCNT" -> "VALDCO"
          [] OTHER -> "VALSOU"]

\* depth.cpp: LNDARE first, then the keys of depth_map in std::map order.
all_target_layers ==
    <<"LNDARE", "DEPARE", "DEPCNT", "DRGARE", "OBSTRN", "SOUNDG", "UWTROC", "WRECKS">>

\* nobjnm.cpp: default of --layers.
DefaultLayers == <<"LNDARE", "DEPARE", "SEAARE", "HRBFAC", "BRIDGE">>

\* nobjnm.cpp: default of --field.
DefaultField == "NOBJNM"

\* Values of --layers tried: the default and a list naming one layer twice.
LayerArgs == {DefaultLayers, <<"DEPARE", "DEPARE">>}

Variants == {"depth", "nobjnm"}

NoCfg == [layers |-> <<>>, field |-> ""]

(***************************************************************************)
(* Input files.  A cell file holds some of the layers of FileLayers; a     *)
(* layer has a schema (the set of its field names) and a list of features, *)
(* each a value per field of the schema.                                   *)
(***************************************************************************)
\* Layers that the sampled cell files may contain.
FileLayers == {"LNDARE", "DEPARE"}

\* File names the directory iterator may yield, as character sequences.
FileNames ==
    { <<"U", "S", "5", "X", ".", "0", "0", "0">>,
      <<"a", ".", "t", "x", "t">> }

\* The field of a layer that a run of the given variant reads (for LNDARE in
\* depth.cpp, which reads none, some field of the feature's own).
OwnField(variant, cfg, layerName) ==
    IF variant = "nobjnm" THEN cfg.field
    ELSE IF layerName \in DOMAIN depth_map THEN depth_map[layerName]
    ELSE "OBJNAM"

Absent == [present |-> FALSE, fields |-> {}, feats |-> <<>>]

Feat(f, val) == [x \in {f} |-> val]

NoFields == [x \in {} |-> Null]

\* Sampled contents of a present layer whose interesting field is f: the
\* field missing from the schema, or present with a numeric, a null, an empty
\* and a textual value.
LayerSamples(f) ==
    { [present |-> TRUE, fields |-> {}, feats |-> <<NoFields>>],
      [present |-> TRUE, fields |-> {f},
       feats |-> <<Feat(f, Real(5)), Feat(f, Null), Feat(f, Text(<<>>)),
                   Feat(f, Text(<<"7">>))>>] }

AllLayerStates(variant, cfg) ==
    {Absent} \cup UNION { LayerSamples(OwnField(variant, cfg, l)) : l \in FileLayers }

Datasets(variant, cfg) ==
    { ds \in [FileLayers -> AllLayerStates(variant, cfg)] :
        \A l \in FileLayers :
            ds[l] = Absent \/ ds[l] \in LayerSamples(OwnField(variant, cfg, l)) }

NoDataset == [l \in FileLayers |-> Absent]

\* GDALDataset::GetLayerByName: the layer, or none.
GetLayerByName(ds, layerName) ==
    IF layerName \in FileLayers THEN ds[layerName] ELSE Absent

\* OGRFeatureDefn::GetFieldIndex(f) != -1.
HasField(layer, f) == f \in layer.fields

(***************************************************************************)
(* Path helpers.                                                           *)
(***************************************************************************)
RECURSIVE LastDot(_, _)
\* Position of the last "." of a name at or before position i, 0 when none.
LastDot(name, i) ==
    IF i = 0 THEN 0
    ELSE IF name[i] = "." THEN i
    ELSE LastDot(name, i - 1)

\* boost::filesystem::path::extension(): from the last dot to the end.
Extension(name) ==
    LET d == LastDot(name, Len(name))
    IN IF d = 0 THEN <<>> ELSE SubSeq(name, d, Len(name))

TargetSuffix == <<".", "0", "0", "0">>

\* nobjnm.cpp: the chart level is the third character of the file name.
LevelCode(filename) == IF Len(filename) >= 3 THEN filename[3] ELSE "0"

(***************************************************************************)
(* Query synthesis: one SELECT per target layer found in the file.         *)
(***************************************************************************)
\* Variant of LandFragment that names the constant column differently from the
\* depth column of the other layers.
LandFragmentOwnColumn(layerName) ==
    [layer |-> layerName, cols |-> <<"WKT", "LAYERS", "LAND">>, proj |-> "const",
     field |-> "", filtered |-> FALSE, level |-> ""]

\* depth.cpp, LNDARE: CAST(-1 AS REAL) AS DEPTH, no WHERE clause.
LandFragment(layerName) ==
    [layer |-> layerName, cols |-> <<"WKT", "LAYERS", "DEPTH">>, proj |-> "const",
     field |-> "", filtered |-> FALSE, level |-> ""]

\* depth.cpp, a layer of depth_map: CAST("f" AS REAL) AS DEPTH with the WHERE clause.
DepthFragment(layerName) ==
    [layer |-> layerName, cols |-> <<"WKT", "LAYERS", "DEPTH">>, proj |-> "cast",
     field |-> depth_map[layerName], filtered |-> TRUE, level |-> ""]

\* nobjnm.cpp: the level tag, the layer tag and the field itself, with the WHERE clause.
FieldFragment(layerName, filterField, level) ==
    [layer |-> layerName, cols |-> <<"WKT", "LEVEL", "LAYERS", filterField>>,
     proj |-> "field", field |-> filterField, filtered |-> TRUE, level |-> level]

\* depth.cpp: what one pass of the layer loop pushes onto sql_parts.
DepthParts(ds, layerName) ==
    IF GetLayerByName(ds, layerName).present
    THEN IF layerName = "LNDARE" THEN <<LandFragment(layerName)>>
         ELSE IF layerName \in DOMAIN depth_map THEN <<DepthFragment(layerName)>>
         ELSE <<>>
    ELSE <<>>

\* nobjnm.cpp: what one pass of the layer loop pushes onto sql_parts.
FieldParts(ds, layerName, filterField, level) ==
    LET poLayer == GetLayerByName(ds, layerName)
    IN IF poLayer.present /\ HasField(poLayer, filterField)
       THEN <<FieldFragment(layerName, filterField, level)>>
       ELSE <<>>

RECURSIVE BuildParts(_, _, _, _, _)
\* The layer loop of either program over its list of target layers, from index i on.
BuildParts(variant, cfg, ds, level, i) ==
    IF i > Len(cfg.layers) THEN <<>>
    ELSE (IF variant = "depth"
          THEN DepthParts(ds, cfg.layers[i])
          ELSE FieldParts(ds, cfg.layers[i], cfg.field, level))
         \o BuildParts(variant, cfg, ds, level, i + 1)

\* Some target layer exists in the file (used to tell the two empty plans apart).
AnyTargetLayer(cfg, ds) ==
    \E i \in 1..Len(cfg.layers) : GetLayerByName(ds, cfg.layers[i]).present

(***************************************************************************)
(* The query as the SQLite dialect evaluates it.  A double-quoted name     *)
(* that is no column of the layer is either rejected (the export then      *)
(* fails) or, by SQLite's double-quoted-string rule, read as the string    *)
(* literal of that name; FieldValue is the second reading.                 *)
(***************************************************************************)
FieldValue(layer, feat, f) ==
    IF HasField(layer, f) THEN feat[f] ELSE Text(<<f>>)

\* The attribute column of one output row.
Project(part, val) ==
    CASE part.proj = "const" -> Real(-1)
      [] part.proj = "cast" -> CastReal(val)
      [] OTHER -> val

\* The feature with index fid of the fragment's layer is selected.
Selected(part, layer, fid) ==
    ~part.filtered \/ PassesFilter(FieldValue(layer, layer.feats[fid], part.field))

RECURSIVE FragmentRows(_, _, _, _)
\* Rows of one SELECT, in feature order from index fid on.
FragmentRows(part, layer, src, fid) ==
    IF fid > Len(layer.feats) THEN <<>>
    ELSE (IF Selected(part, layer, fid)
          THEN <<[src |-> src, layer |-> part.layer, fid |-> fid, level |-> part.level,
                  attr |-> Project(part, FieldValue(layer, layer.feats[fid], part.field))]>>
          ELSE <<>>)
         \o FragmentRows(part, layer, src, fid + 1)

RECURSIVE QueryRows(_, _, _, _)
\* boost::algorithm::join(sql_parts, " UNION ALL "): every row of every fragment, in order.
QueryRows(parts, ds, src, i) ==
    IF i > Len(parts) THEN <<>>
    ELSE FragmentRows(parts[i], GetLayerByName(ds, parts[i].layer), src, 1)
         \o QueryRows(parts, ds, src, i + 1)

(***************************************************************************)
(* State of one run of main().                                             *)
(***************************************************************************)
VARIABLES
    variant,       \* which program runs: "depth" or "nobjnm"
    cfg,           \* target layer list and filter field, set from the command line
    pc,            \* position in main()
    exitCode,      \* -1 while running, then the status the process ends with
    failure,       \* what ended the run early: "none", "cli" or "fs"
    dest,          \* outputDir: whether it exists and the rows of its CSV
    isFirstWrite,  \* the flag of the same name
    nEntries,      \* directory entries the iterator has yielded
    cur,           \* the *.000 file at hand: index, level and opened dataset
    openSrc,       \* source datasets open (poDS)
    sql_parts,     \* the vector of the same name
    psOptions,     \* the translate options built for the file at hand
    liveOptions,   \* GDALVectorTranslateOptions objects allocated and not freed
    openDst,       \* destination handles returned by GDALVectorTranslate and not closed
    scanned,       \* indexes of the entries with the target suffix (history)
    report,        \* per handled file, the path main() took (history)
    calls,         \* the GDALVectorTranslate calls made (history)
    hadOld         \* outputDir existed when the run began (history)

vars ==
    <<variant, cfg, pc, exitCode, failure, dest, isFirstWrite, nEntries, cur, openSrc,
      sql_parts, psOptions, liveOptions, openDst, scanned, report, calls, hadOld>>

NoDest == [exists |-> FALSE, rows |-> <<>>]

\* Output of an earlier run at the same path (source index 0).
OldDest ==
    [exists |-> TRUE,
     rows |-> <<[src |-> 0, layer |-> "DEPARE", fid |-> 1, level |-> "", attr |-> Real(9)]>>]

NoFile == [idx |-> 0, level |-> "", ds |-> NoDataset]

NoOptions == [valid |-> FALSE, append |-> FALSE]

Init ==
    /\ variant \in Variants
    /\ cfg = NoCfg
    /\ pc = "parse"
    /\ exitCode = -1
    /\ failure = "none"
    /\ dest \in {NoDest, OldDest}
    /\ isFirstWrite = TRUE
    /\ nEntries = 0
    /\ cur = NoFile
    /\ openSrc = 0
    /\ sql_parts = <<>>
    /\ psOptions = NoOptions
    /\ liveOptions = 0
    /\ openDst = 0
    /\ scanned = {}
    /\ report = <<>>
    /\ calls = <<>>
    /\ hadOld = dest.exists

(***************************************************************************)
(* Command line.                                                           *)
(***************************************************************************)
\* --help: usage on stdout, return 0.
ShowHelp ==
    /\ pc = "parse"
    /\ pc' = "done"
    /\ exitCode' = 0
    /\ UNCHANGED <<variant, cfg, failure, dest, isFirstWrite, nEntries, cur, openSrc,
                   sql_parts, psOptions, liveOptions, openDst, report, calls,
                   scanned, hadOld>>

\* po::error (a required option missing, an unknown option): return 1.
RejectArgs ==
    /\ pc = "parse"
    /\ pc' = "done"
    /\ exitCode' = 1
    /\ failure' = "cli"
    /\ UNCHANGED <<variant, cfg, dest, isFirstWrite, nEntries, cur, openSrc, sql_parts,
                   psOptions, liveOptions, openDst, report, calls, scanned, hadOld>>

\* The options are read; depth.cpp builds all_target_layers, nobjnm.cpp takes
\* --layers and --field.
AcceptArgs ==
    /\ pc = "parse"
    /\ \/ /\ variant = "depth"
          /\ cfg' = [layers |-> all_target_layers, field |-> ""]
       \/ /\ variant = "nobjnm"
          /\ \E ls \in LayerArgs : cfg' = [layers |-> ls, field |-> DefaultField]
    /\ pc' = "reset"
    /\ UNCHANGED <<variant, exitCode, failure, dest, isFirstWrite, nEntries, cur, openSrc,
                   sql_parts, psOptions, liveOptions, openDst, report, calls,
                   scanned, hadOld>>

(***************************************************************************)
(* Output directory reset, outside the try block.                          *)
(***************************************************************************)
\* Variant of ResetOutput that leaves an existing output directory in place.
ResetOutputKeeps ==
    /\ pc = "reset"
    /\ dest' = dest
    /\ isFirstWrite' = TRUE
    /\ pc' = "iter"
    /\ UNCHANGED <<variant, cfg, exitCode, failure, nEntries, cur, openSrc, sql_parts,
                   psOptions, liveOptions, openDst, report, calls, scanned, hadOld>>

\* fs::exists / fs::remove_all succeed; isFirstWrite is initialised.
ResetOutput ==
    /\ pc = "reset"
    /\ dest' = IF dest.exists THEN NoDest ELSE dest
    /\ isFirstWrite' = TRUE
    /\ pc' = "iter"
    /\ UNCHANGED <<variant, cfg, exitCode, failure, nEntries, cur, openSrc, sql_parts,
                   psOptions, liveOptions, openDst, report, calls, scanned, hadOld>>

\* fs::remove_all throws filesystem_error: no handler is in scope, so the
\* exception leaves main() and std::terminate aborts the process (SIGABRT).
ResetThrows ==
    /\ pc = "reset"
    /\ dest.exists
    /\ pc' = "done"
    /\ exitCode' = 134
    /\ failure' = "fs"
    /\ UNCHANGED <<variant, cfg, dest, isFirstWrite, nEntries, cur, openSrc, sql_parts,
                   psOptions, liveOptions, openDst, report, calls, scanned, hadOld>>

(***************************************************************************)
(* The directory walk, inside the try block.                               *)
(***************************************************************************)
\* The iterator is exhausted: the final message and return 0.
IterEnd ==
    /\ pc = "iter"
    /\ pc' = "done"
    /\ exitCode' = 0
    /\ UNCHANGED <<variant, cfg, failure, dest, isFirstWrite, nEntries, cur, openSrc,
                   sql_parts, psOptions, liveOptions, openDst, report, calls,
                   scanned, hadOld>>

\* Constructing or advancing the iterator throws filesystem_error: caught, return 1.
IterThrows ==
    /\ pc = "iter"
    /\ pc' = "done"
    /\ exitCode' = 1
    /\ failure' = "fs"
    /\ UNCHANGED <<variant, cfg, dest, isFirstWrite, nEntries, cur, openSrc, sql_parts,
                   psOptions, liveOptions, openDst, report, calls, scanned, hadOld>>

\* An entry whose extension is not ".000": the loop body does nothing.
IterOther ==
    /\ pc = "iter"
    /\ nEntries < MaxFiles
    /\ \E name \in FileNames : Extension(name) # TargetSuffix
    /\ nEntries' = nEntries + 1
    /\ UNCHANGED <<variant, cfg, pc, exitCode, failure, dest, isFirstWrite, cur, openSrc,
                   sql_parts, psOptions, liveOptions, openDst, report, calls,
                   scanned, hadOld>>

\* An entry with extension ".000"; nobjnm.cpp derives the level from its name.
IterCell ==
    /\ pc = "iter"
    /\ nEntries < MaxFiles
    /\ \E name \in FileNames :
        /\ Extension(name) = TargetSuffix
        /\ cur' = [idx |-> nEntries + 1,
                   level |-> IF variant = "nobjnm" THEN LevelCode(name) ELSE "",
                   ds |-> NoDataset]
    /\ nEntries' = nEntries + 1
    /\ scanned' = scanned \cup {nEntries + 1}
    /\ pc' = "open"
    /\ UNCHANGED <<variant, cfg, exitCode, failure, dest, isFirstWrite, openSrc, sql_parts,
                   psOptions, liveOptions, openDst, report, calls, hadOld>>

(***************************************************************************)
(* One *.000 file.  Every path through the loop body ends the iteration:   *)
(* the unique_ptr poDS closes the dataset, sql_parts is destroyed and the  *)
(* path taken is appended to the report.                                   *)
(***************************************************************************)
Handled(path) == Append(report, [file |-> cur.idx, path |-> path])

\* Variant of OpenFails that treats an unreadable file as fatal.
OpenFailsAborts ==
    /\ pc = "open"
    /\ report' = Handled("open_failed")
    /\ cur' = NoFile
    /\ pc' = "done"
    /\ exitCode' = 1
    /\ UNCHANGED <<variant, cfg, failure, dest, isFirstWrite, nEntries, openSrc,
                   sql_parts, psOptions, liveOptions, openDst, calls, scanned,
                   hadOld>>

\* GDALOpenEx returns NULL: warning, continue.
OpenFails ==
    /\ pc = "open"
    /\ report' = Handled("open_failed")
    /\ cur' = NoFile
    /\ pc' = "iter"
    /\ UNCHANGED <<variant, cfg, exitCode, failure, dest, isFirstWrite, nEntries, openSrc,
                   sql_parts, psOptions, liveOptions, openDst, calls, scanned,
                   hadOld>>

\* GDALOpenEx returns a dataset, held by poDS.
OpenOK ==
    /\ pc = "open"
    /\ \E ds \in Datasets(variant, cfg) : cur' = [cur EXCEPT !.ds = ds]
    /\ openSrc' = openSrc + 1
    /\ pc' = "inspect"
    /\ UNCHANGED <<variant, cfg, exitCode, failure, dest, isFirstWrite, nEntries, sql_parts,
                   psOptions, liveOptions, openDst, report, calls, scanned, hadOld>>

\* Variant of SkipEmptyPlan that re-arms the first-write flag on a skipped file.
SkipEmptyPlanRearms ==
    /\ pc = "inspect"
    /\ BuildParts(variant, cfg, cur.ds, cur.level, 1) = <<>>
    /\ report' = Handled(IF AnyTargetLayer(cfg, cur.ds) THEN "no_field" ELSE "no_layer")
    /\ isFirstWrite' = TRUE
    /\ openSrc' = openSrc - 1
    /\ cur' = NoFile
    /\ pc' = "iter"
    /\ UNCHANGED <<variant, cfg, exitCode, failure, dest, nEntries, sql_parts,
                   psOptions, liveOptions, openDst, calls, scanned, hadOld>>

\* The layer loop leaves sql_parts empty: the else branch logs the skip.
SkipEmptyPlan ==
    /\ pc = "inspect"
    /\ BuildParts(variant, cfg, cur.ds, cur.level, 1) = <<>>
    /\ report' = Handled(IF AnyTargetLayer(cfg, cur.ds) THEN "no_field" ELSE "no_layer")
    /\ openSrc' = openSrc - 1
    /\ cur' = NoFile
    /\ pc' = "iter"
    /\ UNCHANGED <<variant, cfg, exitCode, failure, dest, isFirstWrite, nEntries, sql_parts,
                   psOptions, liveOptions, openDst, calls, scanned, hadOld>>

\* The layer loop leaves sql_parts non-empty; nobjnm.cpp allocates a first,
\* default options object here, which it never frees.
PlanReady ==
    /\ pc = "inspect"
    /\ BuildParts(variant, cfg, cur.ds, cur.level, 1) # <<>>
    /\ sql_parts' = BuildParts(variant, cfg, cur.ds, cur.level, 1)
    /\ liveOptions' = IF variant = "nobjnm" THEN liveOptions + 1 ELSE liveOptions
    /\ pc' = "options"
    /\ UNCHANGED <<variant, cfg, exitCode, failure, dest, isFirstWrite, nEntries, cur,
                   openSrc, psOptions, openDst, report, calls, scanned, hadOld>>

\* GDALVectorTranslateOptionsNew returns NULL: error, continue.
OptionsFail ==
    /\ pc = "options"
    /\ report' = Handled("options_failed")
    /\ openSrc' = openSrc - 1
    /\ sql_parts' = <<>>
    /\ cur' = NoFile
    /\ pc' = "iter"
    /\ UNCHANGED <<variant, cfg, exitCode, failure, dest, isFirstWrite, nEntries, psOptions,
                   liveOptions, openDst, calls, scanned, hadOld>>

\* The option list is built, with -append unless this is the first write, and
\* GDALVectorTranslateOptionsNew returns the options object.
OptionsOK ==
    /\ pc = "options"
    /\ psOptions' = [valid |-> TRUE, append |-> ~isFirstWrite]
    /\ liveOptions' = liveOptions + 1
    /\ pc' = "translate"
    /\ UNCHANGED <<variant, cfg, exitCode, failure, dest, isFirstWrite, nEntries, cur,
                   openSrc, sql_parts, openDst, report, calls, scanned, hadOld>>

ThisCall(ok) ==
    [file |-> cur.idx, append |-> psOptions.append, ok |-> ok,
     layers |-> [i \in 1..Len(sql_parts) |-> sql_parts[i].layer],
     cols |-> {sql_parts[i].cols : i \in 1..Len(sql_parts)}]

\* GDALVectorTranslate returns the destination handle.  With -append the rows
\* of the query are added to the CSV, without it the CSV is created from them.
TranslateOK ==
    /\ pc = "translate"
    /\ dest' = [exists |-> TRUE,
                rows |-> (IF psOptions.append THEN dest.rows ELSE <<>>)
                         \o QueryRows(sql_parts, cur.ds, cur.idx, 1)]
    /\ calls' = Append(calls, ThisCall(TRUE))
    /\ openDst' = openDst + 1
    /\ pc' = "close"
    /\ UNCHANGED <<variant, cfg, exitCode, failure, isFirstWrite, nEntries, cur, openSrc,
                   sql_parts, psOptions, liveOptions, scanned, report, hadOld>>

\* if (hDstDS): GDALClose(hDstDS), the flag is cleared; then the options are
\* freed and the iteration ends.
CloseDst ==
    /\ pc = "close"
    /\ openDst' = openDst - 1
    /\ isFirstWrite' = FALSE
    /\ liveOptions' = liveOptions - 1
    /\ psOptions' = NoOptions
    /\ report' = Handled("exported")
    /\ openSrc' = openSrc - 1
    /\ sql_parts' = <<>>
    /\ cur' = NoFile
    /\ pc' = "iter"
    /\ UNCHANGED <<variant, cfg, exitCode, failure, dest, nEntries, scanned, calls, hadOld>>

\* Variant of TranslateFails that clears the first-write flag whatever the result.
TranslateFailsClearsFlag ==
    /\ pc = "translate"
    /\ \E created \in BOOLEAN : dest' = [dest EXCEPT !.exists = dest.exists \/ created]
    /\ calls' = Append(calls, ThisCall(FALSE))
    /\ isFirstWrite' = FALSE
    /\ liveOptions' = liveOptions - 1
    /\ psOptions' = NoOptions
    /\ report' = Handled("export_failed")
    /\ openSrc' = openSrc - 1
    /\ sql_parts' = <<>>
    /\ cur' = NoFile
    /\ pc' = "iter"
    /\ UNCHANGED <<variant, cfg, exitCode, failure, nEntries, openDst, scanned, hadOld>>

\* GDALVectorTranslate returns NULL: error message; the options are freed.
\* The failed call may have created the output directory.
TranslateFails ==
    /\ pc = "translate"
    /\ \E created \in BOOLEAN : dest' = [dest EXCEPT !.exists = dest.exists \/ created]
    /\ calls' = Append(calls, ThisCall(FALSE))
    /\ liveOptions' = liveOptions - 1
    /\ psOptions' = NoOptions
    /\ report' = Handled("export_failed")
    /\ openSrc' = openSrc - 1
    /\ sql_parts' = <<>>
    /\ cur' = NoFile
    /\ pc' = "iter"
    /\ UNCHANGED <<variant, cfg, exitCode, failure, isFirstWrite, nEntries, openDst,
                   scanned, hadOld>>

Next ==
    \/ ShowHelp
    \/ RejectArgs
    \/ AcceptArgs
    \/ ResetOutput
    \/ ResetThrows
    \/ IterEnd
    \/ IterThrows
    \/ IterOther
    \/ IterCell
    \/ OpenFails
    \/ OpenOK
    \/ SkipEmptyPlan
    \/ PlanReady
    \/ OptionsFail
    \/ OptionsOK
    \/ TranslateOK
    \/ CloseDst
    \/ TranslateFails

Spec == Init /\ [][Next]_vars

\* The process is scheduled until main() returns.
LiveSpec == Spec /\ WF_vars(Next)

(***************************************************************************)
(* Properties.                                                             *)
(***************************************************************************)
SucceededBefore(k) == \E j \in 1..(k - 1) : calls[j].ok

\* C1: an export call is made with -append exactly when an earlier export call
\* of the run succeeded, and isFirstWrite is true exactly as long as no export
\* call has succeeded and been closed (so it is cleared at the first success,
\* kept by every other outcome, and never set again).
C1_AppendIffEarlierSuccess ==
    /\ \A k \in 1..Len(calls) : calls[k].append <=> SucceededBefore(k)
    /\ pc = "translate" => (psOptions.append <=> SucceededBefore(Len(calls) + 1))
    /\ isFirstWrite <=>
         ~\E k \in 1..Len(calls) : calls[k].ok /\ ~(pc = "close" /\ k = Len(calls))

\* A failed first export, then the first success without -append, then an append.
C1_Witness ==
    \E i, j, k \in 1..Len(calls) :
        /\ i < j /\ j < k
        /\ ~calls[i].ok /\ ~calls[i].append
        /\ calls[j].ok /\ ~calls[j].append
        /\ calls[k].append

\* The terminal state of the file pipeline that a path through the loop body is.
FileState(path) ==
    CASE path = "open_failed" -> "SkippedOpenFailure"
      [] path = "no_layer" -> "SkippedEmpty"
      [] path = "no_field" -> "SkippedFieldMissing"
      [] path = "exported" -> "Exported"
      [] OTHER -> "ExportFailed"

TerminalStates ==
    {"Exported", "SkippedEmpty", "SkippedOpenFailure", "SkippedFieldMissing", "ExportFailed"}

HandledOnce(f) ==
    /\ Cardinality({k \in 1..Len(report) : report[k].file = f}) = 1
    /\ \A k \in 1..Len(report) :
         report[k].file = f => FileState(report[k].path) \in TerminalStates

\* C2: the run ends; whenever main() is at the loop head or has ended, every
\* entry with the target suffix yielded so far has reached exactly one terminal
\* state; and the step that gives a file its terminal state returns to the loop
\* head, whichever state it is.
C2_EveryFileHandledOnce ==
    /\ <>(pc = "done")
    /\ [](pc \in {"iter", "done"} => \A f \in scanned : HandledOnce(f))
    /\ [][report' # report => pc' = "iter" /\ Len(report') = Len(report) + 1]_vars

\* A run that ended normally after an open failure, a skip and an export.
C2_Witness ==
    /\ pc = "done"
    /\ exitCode = 0
    /\ \E i, j, k \in 1..Len(report) :
        /\ report[i].path = "open_failed"
        /\ report[j].path \in {"no_layer", "no_field"}
        /\ report[k].path = "exported"

\* C3: every query handed to GDALVectorTranslate has one column list for all of
\* its SELECTs, and it is the column list of the first successful export.
C3_SchemaLockIn ==
    \A j, k \in 1..Len(calls) :
        /\ Cardinality(calls[k].cols) = 1
        /\ calls[j].ok => calls[k].cols = calls[j].cols

\* A successful export followed by an export of a different set of layers,
\* one of them of several layers.
C3_Witness ==
    \E j, k \in 1..Len(calls) :
        /\ j < k
        /\ calls[j].ok
        /\ calls[j].layers # calls[k].layers
        /\ Len(calls[k].layers) > 1
        /\ Len(calls[j].layers) = 1

\* C4: no fragment of sql_parts names a field that the schema of its layer lacks.
C4_NoAbsentFieldReferenced ==
    \A i \in 1..Len(sql_parts) :
        \/ sql_parts[i].field = ""
        \/ sql_parts[i].field \in GetLayerByName(cur.ds, sql_parts[i].layer).fields

\* The rule kind of a target layer in a run of the given variant.
RuleKind(v, layerName) ==
    IF v = "nobjnm" THEN "FieldFilter"
    ELSE IF layerName = "LNDARE" THEN "Constant"
    ELSE "FieldCast"

\* The rows of the destination that come from feature fid of a layer of file src.
RowsFrom(rows, src, layerName, fid) ==
    {k \in 1..Len(rows) :
        rows[k].src = src /\ rows[k].layer = layerName /\ rows[k].fid = fid}

\* The feature has the field f, and it is neither null nor the empty string.
Qualifies(layer, fid, f) ==
    /\ f \in layer.fields
    /\ layer.feats[fid][f].t # "null"
    /\ ~(layer.feats[fid][f].t = "text" /\ layer.feats[fid][f].s = <<>>)

TargetLayerNames == {cfg.layers[i] : i \in 1..Len(cfg.layers)}

\* C5: in a successful export, a feature of a FieldCast or FieldFilter layer has
\* a row exactly when its source field is non-null and non-empty, and every
\* feature of the Constant layer has a row, with attribute -1.
C5_RowInclusionByRule ==
    [][ (pc = "translate" /\ pc' = "close") =>
          \A l \in TargetLayerNames :
            \A fid \in 1..Len(GetLayerByName(cur.ds, l).feats) :
              LET layer == GetLayerByName(cur.ds, l)
                  got == RowsFrom(dest'.rows, cur.idx, l, fid)
              IN IF RuleKind(variant, l) = "Constant"
                 THEN got # {} /\ \A k \in got : dest'.rows[k].attr = Real(-1)
                 ELSE got # {} <=> Qualifies(layer, fid, OwnField(variant, cfg, l)) ]_vars

\* C6: the step that skips a file with an empty plan makes no export call and
\* leaves the destination and the first-write flag as they were; the file has
\* no row in the destination.
C6_EmptyPlanSkips ==
    [][ (pc = "inspect" /\ pc' = "iter") =>
          /\ calls' = calls
          /\ dest' = dest
          /\ isFirstWrite' = isFirstWrite
          /\ \A k \in 1..Len(dest'.rows) : dest'.rows[k].src # cur.idx ]_vars

\* A file skipped for a missing field after an earlier file was exported.
C6_Witness ==
    \E j, k \in 1..Len(report) :
        /\ j < k
        /\ report[j].path = "exported"
        /\ report[k].path = "no_field"
        /\ ~isFirstWrite
        /\ dest.rows # <<>>

\* C7: the process ends with status 0 or 1, and with 1 exactly when the command
\* line was rejected or a filesystem operation failed.
C7_ExitCodes ==
    pc = "done" =>
        /\ exitCode \in {0, 1}
        /\ exitCode = 1 <=> failure \in {"cli", "fs"}

NoOldRows == \A k \in 1..Len(dest.rows) : dest.rows[k].src # 0

ResetDone == cfg # NoCfg /\ pc # "reset" /\ exitCode # 134

C9_EachFeatureOnce ==
    [][ (pc = "translate" /\ pc' = "close" /\ \A k \in 1..Len(calls) : calls[k].ok) =>
          /\ SubSeq(dest'.rows, 1, Len(dest.rows)) = dest.rows
          /\ \A l \in TargetLayerNames :
               \A fid \in 1..Len(GetLayerByName(cur.ds, l).feats) :
                 LET layer == GetLayerByName(cur.ds, l)
                 IN (\/ RuleKind(variant, l) = "Constant"
                     \/ Qualifies(layer, fid, OwnField(variant, cfg, l)))
                    => Cardinality(RowsFrom(dest'.rows, cur.idx, l, fid)) = 1 ]_vars

\* C10: at the loop head and at the end no source dataset, options object or
\* destination handle is left, and at most one source dataset is open at any time.
C10_ResourcesReleased ==
    /\ openSrc <= 1
    /\ pc \in {"iter", "done"} => openSrc = 0 /\ liveOptions = 0 /\ openDst = 0

====
